---------------------------- MODULE Spec2Model ----------------------------
(***************************************************************************)
(* Model of src/timer/libretro/SDL_systimer.c: the SDL tick counter, the   *)
(* performance counter/frequency pair, the timer-resolution request and    *)
(* the blocking delay, in its two build variants (the _WIN32 branch, lines *)
(* 23-198, and the POSIX branch built with HAVE_CLOCK_GETTIME, lines       *)
(* 199-452).                                                               *)
(*                                                                         *)
(* TLC's integers are 32 bits wide, so the time units and the width of the *)
(* tick counter are scaled down: MsPerSec stands for the 1000 ms of a      *)
(* second, UsPerMs for the 1000 us of a ms, NsPerUs for the 1000 ns of a   *)
(* us and TickBits for the 32 bits of Uint32/DWORD.  Every product and     *)
(* quotient the code forms with 1000, 1000000 and 1000000000 is formed     *)
(* here with the corresponding scaled unit, truncating as C truncates.     *)
(***************************************************************************)
EXTENDS Integers, Sequences, FiniteSets, TLC

\* ------------------------------------------------------------------ scale
\* milliseconds per second (the code's 1000)
MsPerSec == 2
\* microseconds per millisecond (the code's 1000)
UsPerMs == 2
\* nanoseconds per microsecond (1000)
NsPerUs == 2
\* width of Uint32 / DWORD in the model (the code's 32)
TickBits == 2
\* last instant of the modelled run, in nanoseconds since the model starts
MaxClock == 18
\* what QueryPerformanceFrequency reports on the modelled machine
HwCountsPerSec == 3
\* longest SDL_Delay() request of the POSIX variant, in milliseconds
MaxDelayMs == 5
\* longest Sleep() request of the Windows variant, in milliseconds
MaxSleepMs == 2
MaxThreadClock == 5

\* microseconds per second (the code's 1000000, lines 350 and 374)
UsPerSec == MsPerSec * UsPerMs
\* nanoseconds per millisecond (the code's 1000000, lines 299 and 431)
NsPerMs == UsPerMs * NsPerUs
\* nanoseconds per second (the code's 1000000000, lines 337 and 365)
NsPerSec == MsPerSec * NsPerMs
\* 2^32: a Uint32 holds 0 .. TicksModulus - 1
TicksModulus == 2 ^ TickBits

VARIABLES
    \* ---- the build and the platform under the program
    platform,               \* "posix" or "windows": which #ifdef branch is built
    clock,                  \* the true time, in ns
    monoAvail,              \* clock_gettime(SDL_MONOTONIC_CLOCK, ..) succeeds
    qpfAvail,               \* QueryPerformanceFrequency succeeds
    qpcAvail,               \* QueryPerformanceCounter succeeds
    \* ---- the statics of both variants
    ticks_started,
    \* ---- the statics of the POSIX variant (lines 240-247)
    has_monotonic_time,
    start_ts,
    start_tv,
    \* ---- the statics of the Windows variant (lines 33-47)
    start,
    hires_timer_available,
    hires_start_ticks,
    hires_ticks_per_second,
    timer_period,
    \* ---- the collaborators of the Windows variant
    hintCallback,           \* SDL_TimerResolutionChanged is registered with the hint registry
    osRequests,             \* the periods of the timeBeginPeriod calls not yet ended
    \* ---- the arguments of a direct call of SDL_TimerResolutionChanged (lines 63-64)
    cbHint,                 \* hint: absent or a text
    cbSame,                 \* oldValue and hint are the same pointer
    \* ---- threads inside the POSIX queries (lines 280-375), one step per access
    thPc,                   \* per thread: where it is in its call, "idle" outside one
    thOp,                   \* per thread: the query it called
    thFlag,                 \* per thread: the has_monotonic_time it read at the branch
    captures,               \* how often the origin was captured since the threads started
    \* ---- SDL_Delay of the POSIX variant (lines 422-450), one step per loop pass
    delayPc,                \* "idle", "loop" (before a pass), "returned"
    ms,                     \* the argument of the call in progress
    elapsed,                \* struct timespec elapsed
    tv,                     \* struct timespec tv
    was_error,
    errno,
    \* ---- observation of the last call (not program state)
    op,                     \* the last operation called
    ret,                    \* what it returned (0 for a void operation)
    init,                   \* whether SDL_TicksInit's body ran in it: "no", "fresh", "reinit"
    initAt,                 \* the instant the current epoch's SDL_TicksInit body ran (0 outside one)
    prevTicks,              \* the previous SDL_GetTicks result of this epoch, -1 if none
    resArg,                 \* the argument of the SDL_SetSystemTimerResolution call made, -1 if none
    osCalls,                \* what that call did, in order
    slept,                  \* ns slept so far by the delay in progress
    residual,               \* the remaining time the last nanosleep reported
    interrupted             \* the delay in progress was interrupted at least once

\* the threads that call the queries
Threads == {"t1", "t2"}

envVars == <<platform, clock, monoAvail, qpfAvail, qpcAvail>>
posixVars == <<has_monotonic_time, start_ts, start_tv>>
winVars == <<start, hires_timer_available, hires_start_ticks, hires_ticks_per_second,
             timer_period, hintCallback, osRequests>>
delayVars == <<delayPc, ms, elapsed, tv, was_error, errno, slept, residual, interrupted>>
callbackVars == <<cbHint, cbSame>>
threadVars == <<thPc, thOp, thFlag, captures>>
obsVars == <<op, ret, init, initAt, prevTicks, resArg, osCalls>>
vars == <<envVars, ticks_started, posixVars, winVars, callbackVars, threadVars,
          delayVars, obsVars>>

\* ------------------------------------------------------------- arithmetic
\* C's integer division: the quotient truncated toward zero
TruncDiv(a, b) == IF a >= 0 THEN a \div b ELSE -((-a) \div b)

\* conversion to Uint32 / DWORD: reduction modulo 2^32
ToUint32(x) == x % TicksModulus

\* ------------------------------------------------------- the platform clocks
\* clock_gettime(SDL_MONOTONIC_CLOCK, &t) at instant c
MonoAt(c) == [tv_sec |-> c \div NsPerSec, tv_nsec |-> c % NsPerSec]

\* gettimeofday(&t, NULL) at instant c
WallAt(c) == [tv_sec |-> c \div NsPerSec, tv_usec |-> (c % NsPerSec) \div NsPerUs]

\* QueryPerformanceCounter(&t) at instant c: HwCountsPerSec counts a second
QpcAt(c) == (c * HwCountsPerSec) \div NsPerSec

\* timeGetTime() at instant c: milliseconds in a DWORD
TimeGetTimeAt(c) == ToUint32(c \div NsPerMs)

\* What a call can return that computes its result from an uninitialized local
\* (the call meant to fill it failed): any value; the model draws the extremes.
Garbage32 == {0, TicksModulus - 1}
Garbage64 == {0, MaxClock}

\* ------------------------------------------------------------ observation
\* how the last call stood to initialization: the body of SDL_TicksInit ran
\* ("reinit" when the call before was SDL_TicksQuit) or did not
InitKind(before, after) ==
    IF ~before /\ after THEN (IF op = "TicksQuit" THEN "reinit" ELSE "fresh") ELSE "no"

\* the observation a call leaves that makes no SDL_SetSystemTimerResolution call
NoResolutionCall == resArg' = -1 /\ osCalls' = <<>>

\* ============================================================ POSIX variant
\* the statics of the POSIX variant as one value
PosixStatics ==
    [ticks_started |-> ticks_started, has_monotonic_time |-> has_monotonic_time,
     start_ts |-> start_ts, start_tv |-> start_tv]

SetPosixStatics(P) ==
    /\ ticks_started' = P.ticks_started
    /\ has_monotonic_time' = P.has_monotonic_time
    /\ start_ts' = P.start_ts
    /\ start_tv' = P.start_tv

\* (mutation: the guard never returns early)
InitReturnsEarlyMut(started) == FALSE

\* if (ticks_started) return;   (lines 252-254 and 82-84)
InitReturnsEarly(started) == started

\* SDL_TicksInit, lines 249-272, called at instant c
PosixTicksInitOn(P, c) ==
    IF InitReturnsEarly(P.ticks_started) THEN P
    ELSE IF monoAvail
         THEN [P EXCEPT !.ticks_started = TRUE, !.start_ts = MonoAt(c),
                        !.has_monotonic_time = TRUE]
         ELSE [P EXCEPT !.ticks_started = TRUE, !.start_tv = WallAt(c)]

\* SDL_TicksQuit, lines 274-278
PosixTicksQuitOn(P) == [P EXCEPT !.ticks_started = FALSE]

\* (mutation: no query initializes)
NeedsLazyInitMut(started) == FALSE

\* if (!ticks_started) SDL_TicksInit();   (lines 287-289, 327-329, 359-361, 125-127)
NeedsLazyInit(started) == ~started

PosixEnsureInit(P, c) ==
    IF NeedsLazyInit(P.ticks_started) THEN PosixTicksInitOn(P, c) ELSE P

\* (mutation: the operands of the nanosecond difference exchanged)
MonoTicksMut(st, now) ==
    (now.tv_sec - st.tv_sec) * MsPerSec + TruncDiv(st.tv_nsec - now.tv_nsec, NsPerMs)

\* (mutation: the nanosecond fields left out)
MonoTicksWholeSeconds(st, now) == (now.tv_sec - st.tv_sec) * MsPerSec

\* lines 298-299: the monotonic branch, before the conversion to Uint32
MonoTicks(st, now) ==
    (now.tv_sec - st.tv_sec) * MsPerSec + TruncDiv(now.tv_nsec - st.tv_nsec, NsPerMs)

\* (mutation: the operands of the microsecond difference exchanged)
WallTicksMut(st, now) ==
    (now.tv_sec - st.tv_sec) * MsPerSec + TruncDiv(st.tv_usec - now.tv_usec, UsPerMs)

\* line 314: the gettimeofday branch, before the conversion to Uint32
WallTicks(st, now) ==
    (now.tv_sec - st.tv_sec) * MsPerSec + TruncDiv(now.tv_usec - st.tv_usec, UsPerMs)

\* SDL_GetTicks, lines 292-318, on initialized statics P at instant c: the values
\* it can return (one, unless the unchecked clock_gettime failed and left
\* `now' uninitialized)
PosixGetTicksValues(P, c) ==
    IF P.has_monotonic_time
    THEN IF monoAvail THEN {ToUint32(MonoTicks(P.start_ts, MonoAt(c)))} ELSE Garbage32
    ELSE {ToUint32(WallTicks(P.start_tv, WallAt(c)))}

\* SDL_GetPerformanceCounter, lines 331-353
PosixPerformanceCounterValues(P, c) ==
    IF P.has_monotonic_time
    THEN IF monoAvail THEN {MonoAt(c).tv_sec * NsPerSec + MonoAt(c).tv_nsec}
         ELSE Garbage64
    ELSE {WallAt(c).tv_sec * UsPerSec + WallAt(c).tv_usec}

\* SDL_GetPerformanceFrequency, lines 363-374
PosixPerformanceFrequency(P) ==
    IF P.has_monotonic_time THEN NsPerSec ELSE UsPerSec

\* A call that reads a clock happens at some instant c not before the last
\* call; a call that reads none leaves the time to the next one that does.
Instants == clock .. MaxClock

PosixFrame ==
    UNCHANGED <<platform, monoAvail, qpfAvail, qpcAvail, winVars, callbackVars,
                threadVars, delayVars>>

PosixTicksInit ==
    /\ platform = "posix"
    /\ \E c \in Instants :
         \E P \in {PosixTicksInitOn(PosixStatics, c)} :
         /\ clock' = c
         /\ SetPosixStatics(P)
         /\ op' = "TicksInit"
         /\ ret' = 0
         /\ init' = InitKind(ticks_started, P.ticks_started)
         /\ initAt' = IF init' = "no" THEN initAt ELSE c
         /\ prevTicks' = -1
    /\ NoResolutionCall
    /\ PosixFrame

PosixTicksQuit ==
    /\ platform = "posix"
    /\ UNCHANGED clock
    /\ SetPosixStatics(PosixTicksQuitOn(PosixStatics))
    /\ op' = "TicksQuit"
    /\ ret' = 0
    /\ init' = "no"
    /\ prevTicks' = -1
    /\ initAt' = 0
    /\ NoResolutionCall
    /\ PosixFrame

PosixGetTicks ==
    /\ platform = "posix"
    /\ \E c \in Instants :
         \E P \in {PosixEnsureInit(PosixStatics, c)} :
         /\ clock' = c
         /\ SetPosixStatics(P)
         /\ ret' \in PosixGetTicksValues(P, c)
         /\ init' = InitKind(ticks_started, P.ticks_started)
         /\ initAt' = IF init' = "no" THEN initAt ELSE c
         /\ prevTicks' = IF op = "GetTicks" /\ init' = "no" THEN ret ELSE -1
    /\ op' = "GetTicks"
    /\ NoResolutionCall
    /\ PosixFrame

PosixGetPerformanceCounter ==
    /\ platform = "posix"
    /\ \E c \in Instants :
         \E P \in {PosixEnsureInit(PosixStatics, c)} :
         /\ clock' = c
         /\ SetPosixStatics(P)
         /\ ret' \in PosixPerformanceCounterValues(P, c)
         /\ init' = InitKind(ticks_started, P.ticks_started)
         /\ initAt' = IF init' = "no" THEN initAt ELSE c
    /\ op' = "GetPerformanceCounter"
    /\ prevTicks' = -1
    /\ NoResolutionCall
    /\ PosixFrame

PosixGetPerformanceFrequency ==
    /\ platform = "posix"
    /\ \E c \in Instants :
         \E P \in {PosixEnsureInit(PosixStatics, c)} :
         /\ clock' = c
         /\ SetPosixStatics(P)
         /\ ret' = PosixPerformanceFrequency(P)
         /\ init' = InitKind(ticks_started, P.ticks_started)
         /\ initAt' = IF init' = "no" THEN initAt ELSE c
    /\ op' = "GetPerformanceFrequency"
    /\ prevTicks' = -1
    /\ NoResolutionCall
    /\ PosixFrame

\* Between two epochs (before the first call, or after a teardown) the platform
\* may gain or lose its monotonic clock: the probe of the next SDL_TicksInit
\* then sees the other outcome.
PosixClockAvailabilityChanges ==
    /\ platform = "posix"
    /\ ~ticks_started
    /\ op \in {"none", "TicksQuit"}
    /\ monoAvail' = ~monoAvail
    /\ UNCHANGED <<platform, clock, qpfAvail, qpcAvail, ticks_started, posixVars,
                   winVars, callbackVars, threadVars, delayVars, obsVars>>

\* ========================================================== Windows variant
\* ---- the hint registry and the OS timer-resolution requests
\* A hint value: absent (a null pointer) or a text, a sequence of characters.
NullHint == [present |-> FALSE, text |-> <<>>]
HintTexts == {<<>>, <<"0">>, <<"2">>, <<"a", "b", "c">>}
Hints == {NullHint} \cup {[present |-> TRUE, text |-> t] : t \in HintTexts}

Digits == {"0", "1", "2", "3", "4", "5", "6", "7", "8", "9"}
DigitValue(ch) ==
    CASE ch = "0" -> 0 [] ch = "1" -> 1 [] ch = "2" -> 2 [] ch = "3" -> 3 [] ch = "4" -> 4
      [] ch = "5" -> 5 [] ch = "6" -> 6 [] ch = "7" -> 7 [] ch = "8" -> 8 [] ch = "9" -> 9

\* SDL_atoi: the decimal number the text starts with, 0 if it starts with none
RECURSIVE AtoiFrom(_, _)
AtoiFrom(text, acc) ==
    IF text = <<>> \/ Head(text) \notin Digits THEN acc
    ELSE AtoiFrom(Tail(text), acc * 10 + DigitValue(Head(text)))
SDL_atoi(text) == AtoiFrom(text, 0)

\* timeEndPeriod(p): the OS drops one outstanding request for period p, if any
RECURSIVE RemoveOne(_, _)
RemoveOne(reqs, p) ==
    IF reqs = <<>> THEN <<>>
    ELSE IF Head(reqs) = p THEN Tail(reqs)
    ELSE <<Head(reqs)>> \o RemoveOne(Tail(reqs), p)

\* the OS's outstanding requests after the calls of `calls', in order
RECURSIVE AfterCalls(_, _)
AfterCalls(reqs, calls) ==
    IF calls = <<>> THEN reqs
    ELSE LET e == Head(calls) IN
         AfterCalls(CASE e.call = "timeBeginPeriod" -> Append(reqs, e.arg)
                      [] e.call = "timeEndPeriod" -> RemoveOne(reqs, e.arg)
                      [] OTHER -> reqs,
                    Tail(calls))

\* the statics and collaborators of the Windows variant as one value, with the
\* observation of the SDL_SetSystemTimerResolution call of the operation
WinStatics ==
    [ticks_started |-> ticks_started, start |-> start,
     hires_timer_available |-> hires_timer_available,
     hires_start_ticks |-> hires_start_ticks,
     hires_ticks_per_second |-> hires_ticks_per_second,
     timer_period |-> timer_period, hintCallback |-> hintCallback,
     osRequests |-> osRequests, resArg |-> -1, osCalls |-> <<>>]

SetWinStatics(W) ==
    /\ ticks_started' = W.ticks_started
    /\ start' = W.start
    /\ hires_timer_available' = W.hires_timer_available
    /\ hires_start_ticks' = W.hires_start_ticks
    /\ hires_ticks_per_second' = W.hires_ticks_per_second
    /\ timer_period' = W.timer_period
    /\ hintCallback' = W.hintCallback
    /\ osRequests' = W.osRequests
    /\ resArg' = W.resArg
    /\ osCalls' = W.osCalls

\* (mutation: the old request never released)
SetResolutionEffectsStacked(old, uPeriod) ==
    IF uPeriod /= old
    THEN <<[call |-> "timer_period", arg |-> uPeriod]>>
         \o (IF uPeriod /= 0 THEN <<[call |-> "timeBeginPeriod", arg |-> uPeriod]>> ELSE <<>>)
    ELSE <<>>

\* (mutation: the new request installed before the old one is released)
SetResolutionEffectsMut(old, uPeriod) ==
    IF uPeriod /= old
    THEN <<[call |-> "timer_period", arg |-> uPeriod]>>
         \o (IF uPeriod /= 0 THEN <<[call |-> "timeBeginPeriod", arg |-> uPeriod]>> ELSE <<>>)
         \o (IF old /= 0 THEN <<[call |-> "timeEndPeriod", arg |-> old]>> ELSE <<>>)
    ELSE <<>>

\* SDL_SetSystemTimerResolution, lines 49-59: what a call with uPeriod does when
\* timer_period holds `old', in order (the store of line 54 included)
SetResolutionEffects(old, uPeriod) ==
    IF uPeriod /= old
    THEN (IF old /= 0 THEN <<[call |-> "timeEndPeriod", arg |-> old]>> ELSE <<>>)
         \o <<[call |-> "timer_period", arg |-> uPeriod]>>
         \o (IF uPeriod /= 0 THEN <<[call |-> "timeBeginPeriod", arg |-> uPeriod]>> ELSE <<>>)
    ELSE <<>>

\* the value timer_period holds after the effects: the last one stored
RECURSIVE StoredAfter(_, _)
StoredAfter(old, effects) ==
    IF effects = <<>> THEN old
    ELSE StoredAfter(IF Head(effects).call = "timer_period" THEN Head(effects).arg ELSE old,
                     Tail(effects))

\* SDL_SetSystemTimerResolution, lines 43-61
SDL_SetSystemTimerResolution(W, uPeriod) ==
    LET effects == SetResolutionEffects(W.timer_period, uPeriod) IN
    [W EXCEPT !.timer_period = StoredAfter(W.timer_period, effects),
              !.osRequests = AfterCalls(W.osRequests, effects),
              !.resArg = uPeriod,
              !.osCalls = effects]

\* (mutation: the text of the hint parsed even when it is empty)
HintPeriodMut(hint) ==
    IF hint.present THEN ToUint32(SDL_atoi(hint.text)) ELSE 1

\* lines 69-73: the period the hint asks for
HintPeriod(hint) ==
    IF hint.present /\ hint.text /= <<>> THEN ToUint32(SDL_atoi(hint.text)) ELSE 1

\* (mutation: the request made whatever uPeriod and oldValue are)
SDL_TimerResolutionChangedMut(W, sameValue, hint) ==
    SDL_SetSystemTimerResolution(W, HintPeriod(hint))

\* SDL_TimerResolutionChanged, lines 63-77; sameValue: oldValue and hint are the
\* same pointer
SDL_TimerResolutionChanged(W, sameValue, hint) ==
    IF HintPeriod(hint) /= 0 \/ ~sameValue
    THEN SDL_SetSystemTimerResolution(W, HintPeriod(hint))
    ELSE W

\* SDL_AddHintCallback: registers the callback and calls it at once with the
\* hint's current value as both oldValue and hint
SDL_AddHintCallback(W, current) ==
    SDL_TimerResolutionChanged([W EXCEPT !.hintCallback = TRUE], TRUE, current)

\* SDL_DelHintCallback
SDL_DelHintCallback(W) == [W EXCEPT !.hintCallback = FALSE]

\* (mutation: the initialization stores the period 1 itself, without the callback)
WinTicksInitOnMut(W, c, current) ==
    IF InitReturnsEarly(W.ticks_started) THEN W
    ELSE [W EXCEPT !.ticks_started = TRUE, !.hintCallback = TRUE, !.timer_period = 1,
                   !.osRequests = Append(@, 1),
                   !.hires_timer_available = FALSE, !.start = TimeGetTimeAt(c)]

\* SDL_TicksInit, lines 79-105, called at instant c while the hint holds `current'
WinTicksInitOn(W, c, current) ==
    IF InitReturnsEarly(W.ticks_started) THEN W
    ELSE LET W1 == SDL_AddHintCallback([W EXCEPT !.ticks_started = TRUE], current) IN
         IF qpfAvail
         THEN [W1 EXCEPT !.hires_ticks_per_second = HwCountsPerSec,
                         !.hires_timer_available = TRUE,
                         !.hires_start_ticks = IF qpcAvail THEN QpcAt(c) ELSE @]
         ELSE [W1 EXCEPT !.hires_timer_available = FALSE,
                         !.start = TimeGetTimeAt(c)]

\* (mutation: the teardown leaves the timer-resolution request in place)
WinTicksQuitOnMut(W) ==
    [SDL_DelHintCallback(W) EXCEPT !.start = 0, !.ticks_started = FALSE]

\* SDL_TicksQuit, lines 107-117
WinTicksQuitOn(W) ==
    LET W1 == SDL_SetSystemTimerResolution(SDL_DelHintCallback(W), 0) IN
    [W1 EXCEPT !.start = 0, !.ticks_started = FALSE]

WinEnsureInit(W, c, current) ==
    IF NeedsLazyInit(W.ticks_started) THEN WinTicksInitOn(W, c, current) ELSE W

\* lines 132-134: the high-resolution branch, before the conversion to DWORD
HiresTicks(W, now) ==
    TruncDiv((now - W.hires_start_ticks) * MsPerSec, W.hires_ticks_per_second)

\* SDL_GetTicks, lines 129-143, on initialized statics W at instant c: the values
\* it can return (one, unless the unchecked QueryPerformanceCounter failed and
\* left hires_now uninitialized)
WinGetTicksValues(W, c) ==
    IF W.hires_timer_available
    THEN IF qpcAvail THEN {ToUint32(HiresTicks(W, QpcAt(c)))} ELSE Garbage32
    ELSE {ToUint32(TimeGetTimeAt(c) - W.start)}

\* (mutation: the failure of the query ignored)
CounterFallsBackMut == FALSE

\* line 151: SDL_GetPerformanceCounter falls back on SDL_GetTicks
CounterFallsBack == ~qpcAvail

\* SDL_GetPerformanceFrequency, lines 157-166
WinPerformanceFrequency == IF ~qpfAvail THEN MsPerSec ELSE HwCountsPerSec

\* the values the hint may hold when SDL_AddHintCallback reads it: read only
\* when the body of SDL_TicksInit runs
CurrentHints(willInit) == IF willInit THEN Hints ELSE {NullHint}

WinFrame ==
    UNCHANGED <<platform, monoAvail, qpfAvail, qpcAvail, posixVars, callbackVars,
                threadVars, delayVars>>

WinTicksInit ==
    /\ platform = "windows"
    /\ \E c \in Instants, current \in CurrentHints(~InitReturnsEarly(ticks_started)) :
         \E W \in {WinTicksInitOn(WinStatics, c, current)} :
         /\ clock' = c
         /\ SetWinStatics(W)
         /\ init' = InitKind(ticks_started, W.ticks_started)
         /\ initAt' = IF init' = "no" THEN initAt ELSE c
    /\ op' = "TicksInit"
    /\ ret' = 0
    /\ prevTicks' = -1
    /\ WinFrame

WinTicksQuit ==
    /\ platform = "windows"
    /\ UNCHANGED clock
    /\ SetWinStatics(WinTicksQuitOn(WinStatics))
    /\ op' = "TicksQuit"
    /\ ret' = 0
    /\ init' = "no"
    /\ prevTicks' = -1
    /\ initAt' = 0
    /\ WinFrame

WinGetTicks ==
    /\ platform = "windows"
    /\ \E c \in Instants, current \in CurrentHints(NeedsLazyInit(ticks_started)) :
         \E W \in {WinEnsureInit(WinStatics, c, current)} :
         /\ clock' = c
         /\ SetWinStatics(W)
         /\ ret' \in WinGetTicksValues(W, c)
         /\ init' = InitKind(ticks_started, W.ticks_started)
         /\ initAt' = IF init' = "no" THEN initAt ELSE c
         /\ prevTicks' = IF op = "GetTicks" /\ init' = "no" THEN ret ELSE -1
    /\ op' = "GetTicks"
    /\ WinFrame

\* SDL_GetPerformanceCounter, lines 146-155
WinGetPerformanceCounter ==
    /\ platform = "windows"
    /\ \E c \in Instants,
          current \in CurrentHints(CounterFallsBack /\ NeedsLazyInit(ticks_started)) :
         \E W \in {IF CounterFallsBack THEN WinEnsureInit(WinStatics, c, current)
                  ELSE WinStatics} :
         /\ clock' = c
         /\ SetWinStatics(W)
         /\ ret' \in (IF CounterFallsBack THEN WinGetTicksValues(W, c) ELSE {QpcAt(c)})
         /\ init' = InitKind(ticks_started, W.ticks_started)
         /\ initAt' = IF init' = "no" THEN initAt ELSE c
    /\ op' = "GetPerformanceCounter"
    /\ prevTicks' = -1
    /\ WinFrame

WinGetPerformanceFrequency ==
    /\ platform = "windows"
    /\ UNCHANGED clock
    /\ SetWinStatics(WinStatics)
    /\ ret' = WinPerformanceFrequency
    /\ op' = "GetPerformanceFrequency"
    /\ init' = "no"
    /\ prevTicks' = -1
    /\ UNCHANGED initAt
    /\ WinFrame

\* SDL_Delay, lines 168-196 (not WinRT): Sleep(sleepMs) returns sleepMs ms later
WinDelay ==
    /\ platform = "windows"
    /\ \E c \in (IF NeedsLazyInit(ticks_started) THEN Instants ELSE {clock}),
          current \in CurrentHints(NeedsLazyInit(ticks_started)),
          sleepMs \in 0 .. MaxSleepMs :
         \E W \in {WinEnsureInit(WinStatics, c, current)} :
         /\ c + sleepMs * NsPerMs <= MaxClock
         /\ clock' = c + sleepMs * NsPerMs
         /\ SetWinStatics(W)
         /\ init' = InitKind(ticks_started, W.ticks_started)
         /\ initAt' = IF init' = "no" THEN initAt ELSE c
    /\ op' = "Delay"
    /\ ret' = 0
    /\ prevTicks' = -1
    /\ WinFrame

\* The hint registry calls the registered callback when the hint is set to a
\* new value (SDL_SetHint): oldValue and hint are then different pointers.
WinHintChanged ==
    /\ platform = "windows"
    /\ hintCallback
    /\ \E hint \in Hints :
         SetWinStatics(SDL_TimerResolutionChanged(WinStatics, FALSE, hint))
    /\ UNCHANGED clock
    /\ op' = "HintChanged"
    /\ ret' = 0
    /\ init' = "no"
    /\ prevTicks' = -1
    /\ UNCHANGED initAt
    /\ WinFrame

\* Between two epochs (before the first call, or after a teardown) the outcome
\* of the two queries may change.
WinCounterAvailabilityChanges ==
    /\ platform = "windows"
    /\ ~ticks_started
    /\ op \in {"none", "TicksQuit"}
    /\ \E f \in BOOLEAN, q \in BOOLEAN :
         /\ <<f, q>> /= <<qpfAvail, qpcAvail>>
         /\ qpfAvail' = f
         /\ qpcAvail' = q
    /\ UNCHANGED <<platform, clock, monoAvail, ticks_started, posixVars, winVars,
                   callbackVars, threadVars, delayVars, obsVars>>

\* ================================================================ the system
ZeroTimespec == [tv_sec |-> 0, tv_nsec |-> 0]

Init ==
    /\ platform \in {"posix", "windows"}
    /\ clock = 0
    /\ monoAvail \in (IF platform = "posix" THEN BOOLEAN ELSE {FALSE})
    /\ qpfAvail \in (IF platform = "windows" THEN BOOLEAN ELSE {FALSE})
    /\ qpcAvail \in (IF platform = "windows" THEN BOOLEAN ELSE {FALSE})
    /\ ticks_started = FALSE
    /\ has_monotonic_time = FALSE
    /\ start_ts = ZeroTimespec
    /\ start_tv = [tv_sec |-> 0, tv_usec |-> 0]
    /\ start = 0
    /\ hires_timer_available = FALSE
    /\ hires_start_ticks = 0
    /\ hires_ticks_per_second = 0
    /\ timer_period = 0
    /\ hintCallback = FALSE
    /\ osRequests = <<>>
    /\ cbHint = NullHint
    /\ cbSame = FALSE
    /\ thPc = [t \in Threads |-> "idle"]
    /\ thOp = [t \in Threads |-> "none"]
    /\ thFlag = [t \in Threads |-> FALSE]
    /\ captures = 0
    /\ delayPc = "idle"
    /\ ms = 0
    /\ elapsed = ZeroTimespec
    /\ tv = ZeroTimespec
    /\ was_error = 0
    /\ errno = "0"
    /\ slept = 0
    /\ residual = ZeroTimespec
    /\ interrupted = FALSE
    /\ op = "none"
    /\ ret = 0
    /\ init = "no"
    /\ initAt = 0
    /\ prevTicks = -1
    /\ resArg = -1
    /\ osCalls = <<>>

Next ==
    \/ PosixTicksInit
    \/ PosixTicksQuit
    \/ PosixGetTicks
    \/ PosixGetPerformanceCounter
    \/ PosixGetPerformanceFrequency
    \/ PosixClockAvailabilityChanges
    \/ WinTicksInit
    \/ WinTicksQuit
    \/ WinGetTicks
    \/ WinGetPerformanceCounter
    \/ WinGetPerformanceFrequency
    \/ WinDelay
    \/ WinHintChanged
    \/ WinCounterAvailabilityChanges

Spec == Init /\ [][Next]_vars

\* ================================================= SDL_Delay, POSIX variant
\* a struct timespec as a number of nanoseconds, and back (normalized)
TimespecNs(t) == t.tv_sec * NsPerSec + t.tv_nsec
NsTimespec(n) == [tv_sec |-> n \div NsPerSec, tv_nsec |-> n % NsPerSec]

\* lines 430-431: elapsed as set from the argument
DelayInterval(m) == [tv_sec |-> m \div MsPerSec, tv_nsec |-> (m % MsPerSec) * NsPerMs]

\* (mutation: every pass asks for the whole delay again)
DelayRequestMut(el, m) == DelayInterval(m)

\* lines 440-441: what a pass of the loop asks nanosleep for
DelayRequest(el, m) == el

\* (mutation: the loop repeats on every error)
DelayRetriesAnyError(err, en) == err /= 0

\* (mutation: the loop repeats on every error but EINTR)
DelayRetriesMut(err, en) == err /= 0 /\ en /= "EINTR"

\* line 447: while (was_error && (errno == EINTR))
DelayRetries(err, en) == err /= 0 /\ en = "EINTR"

DelayFrame ==
    UNCHANGED <<envVars, ticks_started, posixVars, winVars, callbackVars, threadVars,
                obsVars>>

\* one pass of the do-while, lines 438-447, in which nanosleep returns `result'
\* with errno `en' after sleeping `nap' ns and, when interrupted, writes the
\* remaining time `rem' to elapsed
DelayPass(result, en, nap, rem) ==
    /\ delayPc = "loop"
    /\ tv' = DelayRequest(elapsed, ms)
    /\ was_error' = result
    /\ errno' = en
    /\ slept' = slept + nap
    /\ elapsed' = IF en = "EINTR" THEN rem ELSE elapsed
    /\ residual' = IF en = "EINTR" THEN rem ELSE residual
    /\ interrupted' = (interrupted \/ en = "EINTR")
    /\ delayPc' = IF DelayRetries(result, en) THEN "loop" ELSE "returned"
    /\ UNCHANGED ms
    /\ DelayFrame

\* SDL_Delay(m) is called: lines 427-431
DelayCall ==
    /\ platform = "posix"
    /\ delayPc \in {"idle", "returned"}
    /\ \E m \in 0 .. MaxDelayMs :
         /\ ms' = m
         /\ elapsed' = DelayInterval(m)
    /\ was_error' = 0
    /\ delayPc' = "loop"
    /\ slept' = 0
    /\ interrupted' = FALSE
    /\ residual' = ZeroTimespec
    /\ UNCHANGED <<tv, errno>>
    /\ DelayFrame

\* nanosleep sleeps the whole request and returns 0
DelaySleepCompletes ==
    /\ platform = "posix"
    /\ DelayPass(0, "0", TimespecNs(DelayRequest(elapsed, ms)), ZeroTimespec)

\* a signal interrupts nanosleep with r ns of the request left: it returns -1,
\* errno is EINTR and the remaining time is written to elapsed
DelaySleepInterrupted ==
    /\ platform = "posix"
    /\ \E r \in 1 .. TimespecNs(DelayRequest(elapsed, ms)) :
         DelayPass(-1, "EINTR", TimespecNs(DelayRequest(elapsed, ms)) - r, NsTimespec(r))

\* nanosleep fails at once with another error
DelaySleepFails ==
    /\ platform = "posix"
    /\ DelayPass(-1, "EINVAL", 0, ZeroTimespec)

InitDelay == Init /\ platform = "posix" /\ monoAvail

NextDelay ==
    \/ DelayCall
    \/ DelaySleepCompletes
    \/ DelaySleepInterrupted
    \/ DelaySleepFails

SpecDelay == InitDelay /\ [][NextDelay]_vars

\* A sleep that is no longer interrupted returns: the pass that completes or
\* fails is not postponed forever.
SpecDelayLive == SpecDelay /\ WF_vars(DelaySleepCompletes \/ DelaySleepFails)

\* ======================================= SDL_TimerResolutionChanged, alone
\* The callback as a function of its arguments and of timer_period: called with
\* every hint and oldValue on every period a previous request can have stored.
Periods == {HintPeriod(h) : h \in Hints}

InitCallback ==
    /\ platform = "windows"
    /\ clock = 0
    /\ monoAvail = FALSE
    /\ qpfAvail = FALSE
    /\ qpcAvail = FALSE
    /\ ticks_started = TRUE
    /\ has_monotonic_time = FALSE
    /\ start_ts = ZeroTimespec
    /\ start_tv = [tv_sec |-> 0, tv_usec |-> 0]
    /\ start = 0
    /\ hires_timer_available = FALSE
    /\ hires_start_ticks = 0
    /\ hires_ticks_per_second = 0
    /\ timer_period \in Periods
    /\ hintCallback = TRUE
    /\ osRequests = (IF timer_period = 0 THEN <<>> ELSE <<timer_period>>)
    /\ cbHint \in Hints
    /\ cbSame \in BOOLEAN
    /\ thPc = [t \in Threads |-> "idle"]
    /\ thOp = [t \in Threads |-> "none"]
    /\ thFlag = [t \in Threads |-> FALSE]
    /\ captures = 0
    /\ delayPc = "idle"
    /\ ms = 0
    /\ elapsed = ZeroTimespec
    /\ tv = ZeroTimespec
    /\ was_error = 0
    /\ errno = "0"
    /\ slept = 0
    /\ residual = ZeroTimespec
    /\ interrupted = FALSE
    /\ op = "none"
    /\ ret = 0
    /\ init = "no"
    /\ initAt = 0
    /\ prevTicks = -1
    /\ resArg = -1
    /\ osCalls = <<>>

\* SDL_TimerResolutionChanged(userdata, name, oldValue, hint) is called
TimerResolutionChangedCall ==
    /\ platform = "windows"
    /\ op = "none"
    /\ SetWinStatics(SDL_TimerResolutionChanged(WinStatics, cbSame, cbHint))
    /\ op' = "TimerResolutionChanged"
    /\ ret' = 0
    /\ init' = "no"
    /\ prevTicks' = -1
    /\ UNCHANGED <<clock, initAt>>
    /\ WinFrame

\* the arguments of the next call
CallbackArgumentsChosen ==
    /\ op = "TimerResolutionChanged"
    /\ cbHint' \in Hints
    /\ cbSame' \in BOOLEAN
    /\ op' = "none"
    /\ UNCHANGED <<envVars, ticks_started, posixVars, winVars, threadVars, delayVars,
                   ret, init, initAt, prevTicks, resArg, osCalls>>

NextCallback ==
    \/ TimerResolutionChangedCall
    \/ CallbackArgumentsChosen

SpecCallback == InitCallback /\ [][NextCallback]_vars

\* ============================== threads in the queries of the POSIX variant
\* Each access of a query to a static is a step of its own, so that the steps of
\* two threads interleave as the code, which takes no lock, lets them.
ThreadInstants == clock .. MaxThreadClock

ThreadFrame ==
    UNCHANGED <<platform, monoAvail, qpfAvail, qpcAvail, winVars, callbackVars, delayVars,
                init, initAt, prevTicks, resArg, osCalls>>

\* a thread calls a query
ThreadCalls(t, queries) ==
    /\ thPc[t] = "idle"
    /\ \E q \in queries : thOp' = [thOp EXCEPT ![t] = q]
    /\ thPc' = [thPc EXCEPT ![t] = "check"]
    /\ UNCHANGED <<clock, ticks_started, posixVars, thFlag, captures, op, ret>>
    /\ ThreadFrame

\* lines 287, 327, 359: if (!ticks_started) SDL_TicksInit();
ThreadChecksStarted(t) ==
    /\ thPc[t] = "check"
    /\ thPc' = [thPc EXCEPT ![t] = IF NeedsLazyInit(ticks_started) THEN "init" ELSE "branch"]
    /\ UNCHANGED <<clock, ticks_started, posixVars, thOp, thFlag, captures, op, ret>>
    /\ ThreadFrame

\* lines 252-254: if (ticks_started) return;
ThreadInitChecks(t) ==
    /\ thPc[t] = "init"
    /\ thPc' = [thPc EXCEPT ![t] = IF InitReturnsEarly(ticks_started) THEN "branch"
                                   ELSE "init_set"]
    /\ UNCHANGED <<clock, ticks_started, posixVars, thOp, thFlag, captures, op, ret>>
    /\ ThreadFrame

\* line 255: ticks_started = SDL_TRUE;
ThreadInitSetsStarted(t) ==
    /\ thPc[t] = "init_set"
    /\ ticks_started' = TRUE
    /\ thPc' = [thPc EXCEPT ![t] = "init_probe"]
    /\ UNCHANGED <<clock, posixVars, thOp, thFlag, captures, op, ret>>
    /\ ThreadFrame

\* lines 259 and 270: the origin is captured from the clock the probe finds
ThreadInitCaptures(t) ==
    /\ thPc[t] = "init_probe"
    /\ \E c \in ThreadInstants :
         /\ clock' = c
         /\ IF monoAvail
            THEN start_ts' = MonoAt(c) /\ UNCHANGED start_tv
            ELSE start_tv' = WallAt(c) /\ UNCHANGED start_ts
    /\ thPc' = [thPc EXCEPT ![t] = IF monoAvail THEN "init_flag" ELSE "branch"]
    /\ captures' = captures + 1
    /\ UNCHANGED <<ticks_started, has_monotonic_time, thOp, thFlag, op, ret>>
    /\ ThreadFrame

\* line 260: has_monotonic_time = SDL_TRUE;
ThreadInitSetsFlag(t) ==
    /\ thPc[t] = "init_flag"
    /\ has_monotonic_time' = TRUE
    /\ thPc' = [thPc EXCEPT ![t] = "branch"]
    /\ UNCHANGED <<clock, ticks_started, start_ts, start_tv, thOp, thFlag, captures, op, ret>>
    /\ ThreadFrame

\* lines 292, 331, 363: if (has_monotonic_time)
ThreadReadsFlag(t) ==
    /\ thPc[t] = "branch"
    /\ thFlag' = [thFlag EXCEPT ![t] = has_monotonic_time]
    /\ thPc' = [thPc EXCEPT ![t] = "compute"]
    /\ UNCHANGED <<clock, ticks_started, posixVars, thOp, captures, op, ret>>
    /\ ThreadFrame

\* the statics as the thread sees them when it computes: the flag as it read it
ThreadStatics(t) == [PosixStatics EXCEPT !.has_monotonic_time = thFlag[t]]

\* lines 295-318, 333-353, 365-374: the clock is read, the result computed from
\* the origin and returned
ThreadComputes(t) ==
    /\ thPc[t] = "compute"
    /\ \E c \in (IF thOp[t] = "GetPerformanceFrequency" THEN {clock} ELSE ThreadInstants) :
         /\ clock' = c
         /\ ret' \in CASE thOp[t] = "GetTicks" -> PosixGetTicksValues(ThreadStatics(t), c)
                     [] thOp[t] = "GetPerformanceCounter" ->
                            PosixPerformanceCounterValues(ThreadStatics(t), c)
                     [] OTHER -> {PosixPerformanceFrequency(ThreadStatics(t))}
    /\ op' = thOp[t]
    /\ thPc' = [thPc EXCEPT ![t] = "idle"]
    /\ UNCHANGED <<ticks_started, posixVars, thOp, thFlag, captures>>
    /\ ThreadFrame

\* ---- the queries called by threads once an SDL_TicksInit has completed; the
\* initializations and teardowns themselves run while no thread is in a query
NoThreadInQuery == \A t \in Threads : thPc[t] = "idle"

InitReaders == Init /\ platform = "posix"

ReadersTicksInit == NoThreadInQuery /\ PosixTicksInit /\ clock' <= MaxThreadClock

ReadersTicksQuit == NoThreadInQuery /\ PosixTicksQuit /\ clock' <= MaxThreadClock

ReadersQuery(t) ==
    \/ /\ ticks_started
       /\ ThreadCalls(t, {"GetTicks", "GetPerformanceCounter", "GetPerformanceFrequency"})
    \/ ThreadChecksStarted(t)
    \/ ThreadReadsFlag(t)
    \/ ThreadComputes(t)

NextReaders ==
    \/ ReadersTicksInit
    \/ ReadersTicksQuit
    \/ PosixClockAvailabilityChanges
    \/ \E t \in Threads : ReadersQuery(t)

SpecReaders == InitReaders /\ [][NextReaders]_vars

\* ---- SDL_GetTicks called by threads before any initialization
InitRace == Init /\ platform = "posix"

NextRace ==
    \E t \in Threads :
        \/ ThreadCalls(t, {"GetTicks"})
        \/ ThreadChecksStarted(t)
        \/ ThreadInitChecks(t)
        \/ ThreadInitSetsStarted(t)
        \/ ThreadInitCaptures(t)
        \/ ThreadInitSetsFlag(t)
        \/ ThreadReadsFlag(t)
        \/ ThreadComputes(t)

SpecRace == InitRace /\ [][NextRace]_vars

\* ==================================================================== claims
\* the program's own state in both variants (the statics and the registration)
programState == <<ticks_started, posixVars, winVars>>

\* the clock the current epoch's SDL_GetTicks reads can be read
SourceReadable ==
    IF platform = "posix" THEN has_monotonic_time => monoAvail
    ELSE hires_timer_available => qpcAvail

\* the counter whose frequency query succeeds can be read
ProbedSourceReadable == platform = "windows" => (qpfAvail => qpcAvail)

\* the reading at instant c of the clock this epoch's SDL_GetTicks reads, and
\* how many of its units make a millisecond: SourceAt(c) / SourceDen ms
SourceAt(c) ==
    IF platform = "posix"
    THEN IF has_monotonic_time THEN c ELSE c \div NsPerUs
    ELSE IF hires_timer_available
         THEN QpcAt(c) * MsPerSec
         ELSE c \div NsPerMs

SourceDen ==
    IF platform = "posix"
    THEN IF has_monotonic_time THEN NsPerMs ELSE UsPerMs
    ELSE IF hires_timer_available THEN HwCountsPerSec ELSE 1

\* the time since the origin of the current epoch as that clock measures it
ElapsedNum == SourceAt(clock) - SourceAt(initAt)

ElapsedDen == SourceDen

Abs(x) == IF x >= 0 THEN x ELSE -x

\* C1: in both variants a call of ticksInit() while started is true changes
\* nothing of the program's state (origin, backend flag, started, callback
\* registration, requested period), whatever the clock reads at that call.
IdempotentInit ==
    [][(op' = "TicksInit" /\ ticks_started) => UNCHANGED programState]_vars

\* a second ticksInit() has returned, later than the origin was captured
IdempotentInitWitness ==
    /\ op = "TicksInit"
    /\ init = "no"
    /\ ticks_started
    /\ clock > initAt
    /\ (platform = "windows" => hintCallback)

\* C2: getTicks() called with no clock advance after a ticksInit() that
\* directly follows ticksQuit() returns 0, for every outcome of the probe that
\* ticksInit() made.
ReinitStartsAtZero ==
    [][(/\ op = "TicksInit"
        /\ init = "reinit"
        /\ ProbedSourceReadable
        /\ op' = "GetTicks"
        /\ clock' = clock) => ret' = 0]_vars

\* C3 as claimed: within one epoch, with fewer than 2^32 ms elapsed since the
\* origin and a clock that is read and never goes backward, a read of
\* getTicks() is not smaller than the read before it.
MonotonicBelowWrap ==
    (/\ op = "GetTicks"
     /\ prevTicks >= 0
     /\ SourceReadable
     /\ ElapsedNum < TicksModulus * ElapsedDen) => ret >= prevTicks

\* C3 as amended: the same with at most 2^32 - 1 ms elapsed since the origin.
MonotonicBeforeLastMs ==
    (/\ op = "GetTicks"
     /\ prevTicks >= 0
     /\ SourceReadable
     /\ ElapsedNum <= (TicksModulus - 1) * ElapsedDen) => ret >= prevTicks

\* two reads of the monotonic branch, the second greater than the first and
\* taken where the clock's sub-second field is smaller than the origin's
MonotonicWitness ==
    /\ op = "GetTicks"
    /\ platform = "posix"
    /\ has_monotonic_time
    /\ monoAvail
    /\ prevTicks >= 0
    /\ ret > prevTicks
    /\ MonoAt(clock).tv_nsec < start_ts.tv_nsec
    /\ ElapsedNum <= (TicksModulus - 1) * ElapsedDen

\* the wrapped difference of two adjacent reads against the time
\* the epoch's clock measured between them, in units of that clock
DeltaError ==
    Abs(((ret' - ret) % TicksModulus) * SourceDen
        - (SourceAt(clock') - SourceAt(clock)))

\* two adjacent reads of one epoch between which the counter wrapped
ReadsAcrossWrap ==
    /\ op = "GetTicks"
    /\ op' = "GetTicks"
    /\ init' = "no"
    /\ ret' < ret
    /\ SourceReadable
    /\ SourceAt(clock') - SourceAt(clock) <= (TicksModulus - 2) * SourceDen

\* C4 as claimed: for two reads t1, t2 of one epoch, one before and one after
\* the counter wraps, (t2 - t1) mod 2^32 equals the elapsed time between the
\* reads to within 1 ms.
WrapSafeWithinOneMs ==
    [][ReadsAcrossWrap => DeltaError <= SourceDen]_vars

\* C4 as amended: the same, to within less than 2 ms.
WrapSafeWithinTwoMs ==
    [][ReadsAcrossWrap => DeltaError < 2 * SourceDen]_vars

\* a read of 0 directly after a read of 2^32 - 1 in the same epoch, the two
\* less than 2 ms apart
WrapSafeWitness ==
    /\ op = "GetTicks"
    /\ SourceReadable
    /\ prevTicks = TicksModulus - 1
    /\ ret = 0
    /\ ElapsedNum <= TicksModulus * ElapsedDen

\* the counts per second of the source SDL_GetPerformanceCounter reads in the
\* current state (after the lazy initialization the POSIX query would make)
CounterSourceRate ==
    IF platform = "posix"
    THEN IF PosixEnsureInit(PosixStatics, clock).has_monotonic_time
         THEN NsPerSec ELSE UsPerSec
    ELSE IF qpcAvail THEN HwCountsPerSec ELSE MsPerSec

\* C5: in both variants, and for every combination of outcomes of the two
\* hardware-counter queries, getPerformanceFrequency() returns the number of
\* counts per second of the source getPerformanceCounter() reads in that state.
FrequencyMatchesCounter ==
    op = "GetPerformanceFrequency" => ret = CounterSourceRate

\* no high-resolution counter is available to getPerformanceCounter()
NoHiresCounter ==
    IF platform = "posix" THEN ~has_monotonic_time ELSE ~qpcAvail

\* what getTicks() would return at the current instant
TicksNow ==
    IF platform = "posix" THEN PosixGetTicksValues(PosixStatics, clock)
    ELSE WinGetTicksValues(WinStatics, clock)

\* the raw reading of the high-resolution counter at the current instant
RawCounterNow == IF platform = "posix" THEN clock ELSE QpcAt(clock)

\* the high-resolution counter, where there is one, can be read
CounterReadable == platform = "posix" => monoAvail

\* C6 as claimed: getPerformanceCounter() returns the value of getTicks() when
\* no high-resolution counter is available (POSIX: backend flag false; Windows:
\* the counter query fails), and the raw counter reading, not relative to the
\* origin, when one is.
CounterFallsBackOnTicks ==
    op = "GetPerformanceCounter" =>
        IF NoHiresCounter THEN ret \in TicksNow
        ELSE CounterReadable => ret = RawCounterNow

\* C6 as amended: on Windows it returns the value of getTicks() when the
\* counter query fails; on POSIX with the backend flag false it returns the
\* wall clock's reading in microseconds, not relative to the origin; and the
\* raw counter reading when a high-resolution counter is available.
CounterFallsBackPerVariant ==
    op = "GetPerformanceCounter" =>
        IF NoHiresCounter
        THEN IF platform = "posix" THEN ret = clock \div NsPerUs
             ELSE ret \in TicksNow
        ELSE CounterReadable => ret = RawCounterNow

\* the POSIX wall-clock branch has returned a reading that getTicks() would
\* not return, in an epoch whose origin is not the clock's zero
CounterFallsBackWitness ==
    /\ op = "GetPerformanceCounter"
    /\ platform = "posix"
    /\ ~has_monotonic_time
    /\ initAt > 0
    /\ ret > 0
    /\ ret \notin TicksNow

\* the three queries
Queries == {"GetTicks", "GetPerformanceCounter", "GetPerformanceFrequency"}

\* the state right after an initialization at the current instant: started,
\* and the origin captured from the clock the probe chose
OriginCaptured ==
    /\ ticks_started
    /\ initAt = clock
    /\ IF platform = "posix"
       THEN IF monoAvail THEN has_monotonic_time /\ start_ts = MonoAt(clock)
            ELSE start_tv = WallAt(clock)
       ELSE /\ hintCallback
            /\ IF qpfAvail
               THEN /\ hires_timer_available
                    /\ hires_ticks_per_second = HwCountsPerSec
                    /\ qpcAvail => hires_start_ticks = QpcAt(clock)
               ELSE ~hires_timer_available /\ start = TimeGetTimeAt(clock)

InitializingQuery ==
    \/ platform = "posix"
    \/ op' = "GetTicks"
    \/ op' = "GetPerformanceCounter" /\ ~qpcAvail

ProgramStep == UNCHANGED <<monoAvail, qpfAvail, qpcAvail>>

\* the OS calls a call of SDL_SetSystemTimerResolution made, by name
CallsNamed(name) == {i \in DOMAIN osCalls : osCalls[i].call = name}

\* C10: setSystemTimerResolution(p) with p equal to the stored period does
\* nothing; otherwise it releases the previous request (if the stored period is
\* non-zero) before it stores p, and installs the new request (if p is
\* non-zero) after; afterwards the stored period is p.
ResolutionReleasedBeforeInstalled ==
    [][(ProgramStep /\ resArg' /= -1) =>
         /\ timer_period' = resArg'
         /\ resArg' = timer_period => osCalls' = <<>>
         /\ resArg' /= timer_period =>
              /\ \A i \in DOMAIN osCalls' :
                   osCalls'[i] \in
                     {[call |-> "timeEndPeriod", arg |-> timer_period],
                      [call |-> "timer_period", arg |-> resArg'],
                      [call |-> "timeBeginPeriod", arg |-> resArg']}
              /\ Cardinality(CallsNamed("timer_period")') = 1
              /\ Cardinality(CallsNamed("timeEndPeriod")')
                   = (IF timer_period /= 0 THEN 1 ELSE 0)
              /\ Cardinality(CallsNamed("timeBeginPeriod")')
                   = (IF resArg' /= 0 THEN 1 ELSE 0)
              /\ \A i \in CallsNamed("timeEndPeriod")', j \in CallsNamed("timer_period")' : i < j
              /\ \A i \in CallsNamed("timer_period")', j \in CallsNamed("timeBeginPeriod")' : i < j]_vars

\* a call that released a request, stored the new period and installed the new
\* request
ResolutionWitness ==
    /\ resArg > 0
    /\ Len(osCalls) = 3
    /\ osCalls[1].call = "timeEndPeriod"
    /\ osCalls[3].call = "timeBeginPeriod"
    /\ osCalls[1].arg /= osCalls[3].arg
    /\ timer_period = resArg

\* C8: when delay(ms) returns after a sleep attempt that succeeded, the time
\* slept over all its attempts is at least ms, however often and wherever
\* signals interrupted it; and each attempt after an interruption asks for
\* exactly the remaining time the interrupted attempt reported.
DelayLowerBound ==
    /\ [](delayPc = "returned" /\ was_error = 0 => slept >= ms * NsPerMs)
    /\ [][(delayPc = "loop" /\ interrupted) => tv' = residual]_vars

\* a delay of more than nothing has returned from a successful attempt after
\* an interruption that left less than the whole request
DelayLowerBoundWitness ==
    /\ delayPc = "returned"
    /\ was_error = 0
    /\ interrupted
    /\ ms > 0
    /\ TimespecNs(residual) < ms * NsPerMs
    /\ tv = residual

\* C9: provided some sleep attempt eventually completes or fails with an error
\* that is not an interruption, delay(ms) returns for every ms; and an attempt
\* interrupted by a signal is followed by another attempt, not by the return.
DelayTerminates ==
    /\ (delayPc = "loop") ~> (delayPc = "returned")
    /\ [][(delayPc = "loop" /\ was_error' /= 0 /\ errno' = "EINTR")
             => delayPc' = "loop"]_vars

\* the longest delay has returned after a signal interrupted it with the least
\* time left and it slept that remainder
DelayTerminatesWitness ==
    /\ delayPc = "returned"
    /\ interrupted
    /\ ms = MaxDelayMs
    /\ TimespecNs(residual) = 1
    /\ slept = ms * NsPerMs

\* C11: in the Windows variant, after ticksQuit() has returned, whatever came
\* before it, and until the next initialization, started is false, the stored
\* period is 0, the OS holds no timer-resolution request and the hint callback
\* is not registered (so a change of the hint cannot alter the period).
TeardownReleases ==
    /\ (platform = "windows" /\ op = "TicksQuit") => ~ticks_started
    /\ (platform = "windows" /\ ~ticks_started) =>
          /\ timer_period = 0
          /\ osRequests = <<>>
          /\ ~hintCallback

\* a ticksQuit() has released a request that a change of the hint had installed
TeardownReleasesWitness ==
    /\ platform = "windows"
    /\ op = "TicksQuit"
    /\ resArg = 0
    /\ Len(osCalls) = 2
    /\ osCalls[1] = [call |-> "timeEndPeriod", arg |-> 2]
    /\ osRequests = <<>>

\* the callback's hint is a text that is not empty
HintNotEmpty == cbHint.present /\ cbHint.text /= <<>>

\* the unsigned integer the texts of HintTexts read as
ParsedPeriod ==
    CASE cbHint.text = <<"2">> -> 2
      [] cbHint.text = <<"0">> -> 0
      [] cbHint.text = <<"a", "b", "c">> -> 0
      [] OTHER -> -1

\* C12 as claimed: a call of the callback with a hint text that is not empty
\* leaves the stored period equal to the unsigned integer the text reads as
\* (0 for "0" and for "abc"), for every previous period and every oldValue,
\* one that is the same string object as the hint included.
HintTextSetsPeriod ==
    [][(op' = "TimerResolutionChanged" /\ HintNotEmpty)
          => timer_period' = ParsedPeriod]_vars

\* C12 as amended: the same, except that when the text reads as 0 and oldValue
\* is the same string object as the hint the callback makes no request and the
\* stored period stays what it was.
HintTextSetsPeriodUnlessSameZero ==
    [][(op' = "TimerResolutionChanged" /\ HintNotEmpty)
          => IF ParsedPeriod = 0 /\ cbSame
             THEN UNCHANGED <<timer_period, osRequests>> /\ resArg' = -1
             ELSE timer_period' = ParsedPeriod /\ resArg' = ParsedPeriod]_vars

\* the callback has returned from a call with the text "abc" and an oldValue
\* that is another object, on a period that was not 0: the request is released
HintTextWitness ==
    /\ op = "TimerResolutionChanged"
    /\ cbHint = [present |-> TRUE, text |-> <<"a", "b", "c">>]
    /\ ~cbSame
    /\ timer_period = 0
    /\ osCalls /= <<>>
    /\ osCalls[1].call = "timeEndPeriod"

\* C13: a call of the callback with an absent or an empty hint leaves the
\* stored period at 1, for every previous period and every oldValue.
EmptyHintSetsOne ==
    (op = "TimerResolutionChanged" /\ ~HintNotEmpty)
        => (timer_period = 1 /\ osRequests = <<1>>)

\* the callback has returned from a call with an absent hint and the same
\* (null) oldValue, on a period that was 2
EmptyHintWitness ==
    /\ op = "TimerResolutionChanged"
    /\ ~cbHint.present
    /\ cbSame
    /\ timer_period = 1
    /\ Len(osCalls) = 3
    /\ osCalls[1] = [call |-> "timeEndPeriod", arg |-> 2]

\* the clock the probe of SDL_TicksInit prefers is not available in this epoch
PreferredUnavailable ==
    IF platform = "posix" THEN ~monoAvail ELSE ~qpfAvail

\* the fallback constant of getPerformanceFrequency()
FallbackFrequency == IF platform = "posix" THEN UsPerSec ELSE MsPerSec

\* what getTicks() computes at the current instant from the coarse source and
\* the origin the coarse source gave at the initialization of this epoch
CoarseTicks ==
    IF platform = "posix"
    THEN ((WallAt(clock).tv_sec - WallAt(initAt).tv_sec) * MsPerSec
          + TruncDiv(WallAt(clock).tv_usec - WallAt(initAt).tv_usec, UsPerMs))
         % TicksModulus
    ELSE (TimeGetTimeAt(clock) - TimeGetTimeAt(initAt)) % TicksModulus

\* C14: ticksInit() leaves started true for every outcome of the clock probe;
\* getPerformanceFrequency() is greater than 0 in every reachable state; and
\* when the preferred clock is unavailable it returns exactly the fallback
\* constant and getTicks() computes its value from the coarse source's origin.
GracefulFallback ==
    /\ op = "TicksInit" => ticks_started
    /\ op = "GetPerformanceFrequency" => ret > 0
    /\ (op = "GetPerformanceFrequency" /\ PreferredUnavailable)
          => ret = FallbackFrequency
    /\ (op = "GetTicks" /\ PreferredUnavailable) => ret = CoarseTicks

\* C15: a sleep attempt of delay(ms) that fails with an error other than an
\* interruption is the last one: delay returns at once (it is void, the caller
\* sees no error); and another attempt follows only an attempt that failed
\* with an interruption.
DelayStopsOnError ==
    /\ [][(delayPc = "loop" /\ was_error' /= 0 /\ errno' /= "EINTR")
             => (delayPc' = "returned" /\ UNCHANGED <<ret, slept>>)]_vars
    /\ [][(delayPc = "loop" /\ delayPc' = "loop")
             => (was_error' /= 0 /\ errno' = "EINTR")]_vars

\* a delay has returned from a failed attempt before the time asked for was
\* slept
DelayStopsOnErrorWitness ==
    /\ delayPc = "returned"
    /\ was_error /= 0
    /\ errno = "EINVAL"
    /\ slept < ms * NsPerMs

\* the step is a call in which the hint registry invoked the callback: a change
\* of the hint, or the registration made by the body of SDL_TicksInit
CallbackInvoked == op' = "HintChanged" \/ init' /= "no"

\* C16 as claimed: in the Windows variant the stored period changes only in a
\* call in which the callback is invoked; ticksInit(), ticksQuit(), the three
\* queries and delay() change it in no other way.
PeriodWrittenByCallbackOnly ==
    [][(platform = "windows" /\ timer_period' /= timer_period)
          => CallbackInvoked]_vars

\* C16 as amended: the stored period changes only in
\* SDL_SetSystemTimerResolution, which the callback calls and ticksQuit()
\* calls directly with 0; the queries, delay() and ticksInit() change it only
\* through the callback.
PeriodWrittenByCallbackOrQuit ==
    [][(platform = "windows" /\ timer_period' /= timer_period)
          => /\ resArg' = timer_period'
             /\ \/ CallbackInvoked
                \/ op' = "TicksQuit" /\ timer_period' = 0]_vars

\* ticksQuit() has changed the period from 1 to 0
PeriodWrittenWitness ==
    /\ platform = "windows"
    /\ op = "TicksQuit"
    /\ timer_period = 0
    /\ osCalls = <<[call |-> "timeEndPeriod", arg |-> 1],
                  [call |-> "timer_period", arg |-> 0]>>


\* a step of a thread inside a query
QueryStep == thPc' /= thPc

\* the thread whose query returns in this step
Returns(t, q) == thPc[t] = "compute" /\ thPc'[t] = "idle" /\ thOp[t] = q

\* what SDL_GetTicks computes at instant c from the origin that the
\* initialization of the current epoch captured at initAt, from the clock that
\* initialization found
TicksFromCapturedOrigin(c) ==
    IF monoAvail THEN ToUint32(MonoTicks(MonoAt(initAt), MonoAt(c)))
    ELSE ToUint32(WallTicks(WallAt(initAt), WallAt(c)))

\* the steps of the queries leave the statics as the initialization left them
QueriesLeaveStatics ==
    [][QueryStep => UNCHANGED <<ticks_started, has_monotonic_time, start_ts, start_tv,
                               timer_period>>]_vars

\* C17: once a ticksInit() has completed, the steps of getTicks(),
\* getPerformanceCounter() and getPerformanceFrequency() run by two threads in
\* any interleaving leave started, the backend flag, the origin and the
\* requested period unchanged, and every value getTicks() returns is the one
\* computed from the origin which that initialization captured.
QueriesArePureReads ==
    [][QueryStep =>
         /\ UNCHANGED <<ticks_started, has_monotonic_time, start_ts, start_tv, timer_period>>
         /\ \A t \in Threads : Returns(t, "GetTicks") => ret' = TicksFromCapturedOrigin(clock')]_vars

\* the same, for the epochs whose initialization set the backend flag it left
QueriesArePureReadsUnlessStale ==
    [][(QueryStep /\ (has_monotonic_time => monoAvail)) =>
         /\ UNCHANGED <<ticks_started, has_monotonic_time, start_ts, start_tv, timer_period>>
         /\ \A t \in Threads : Returns(t, "GetTicks") => ret' = TicksFromCapturedOrigin(clock')]_vars

\* the thread is where SDL_GetTicks reads the backend flag (line 292) or the
\* origin (lines 298-299, 314): it has seen ticks_started true or has run
\* SDL_TicksInit
ReadsOriginOrFlag(t) == thPc[t] \in {"branch", "compute"}

\* the origin of the epoch is captured and the flag tells the clock it is of
OriginAndFlagReady == captures >= 1 /\ has_monotonic_time = monoAvail

\* the origin is never captured a second time
OriginCapturedOnce == captures <= 1

\* no thread reads the flag or the origin before they are written
ReadsAfterCapture == \A t \in Threads : ReadsOriginOrFlag(t) => OriginAndFlagReady

\* C18: when two threads call getTicks() on an uninitialized program with no
\* serialization, wherever a thread has seen started true and reads the backend
\* flag and the origin, the origin of the epoch is already captured and the flag
\* already set, and the origin is captured once in the epoch.
LazyInitOrdered == ReadsAfterCapture /\ OriginCapturedOnce

\* C19: in the Windows variant, in every state reached by ticksInit(),
\* ticksQuit(), lazily initializing queries and invocations of the hint
\* callback with any hint, the OS holds at most one timeBeginPeriod request not
\* matched by a timeEndPeriod of the same period; it holds one exactly when the
\* stored period is not 0, and that request is for the stored period.
NoStackedRequest ==
    platform = "windows" =>
        /\ Len(osRequests) <= 1
        /\ (Len(osRequests) = 1) <=> (timer_period /= 0)
        /\ timer_period /= 0 => osRequests = <<timer_period>>

\* a change of the hint has replaced the request for period 1 by one for
\* period 2
NoStackedRequestWitness ==
    /\ platform = "windows"
    /\ op = "HintChanged"
    /\ timer_period = 2
    /\ osRequests = <<2>>
    /\ Len(osCalls) = 3
    /\ osCalls[1] = [call |-> "timeEndPeriod", arg |-> 1]

\* getTicks() of the POSIX variant has returned r = ret, having read the clock
\* the origin was captured from, not earlier than the origin
TicksReadOfSameClock ==
    /\ platform = "posix"
    /\ op = "GetTicks"
    /\ SourceReadable
    /\ ElapsedNum >= 0

\* r - 1 < e < r + 1, e = ElapsedNum / ElapsedDen ms
WithinOneMs ==
    /\ (ret - 1) * ElapsedDen < ElapsedNum
    /\ ElapsedNum < (ret + 1) * ElapsedDen

\* C20 as claimed: in the POSIX variant, for every origin and every later
\* reading of the same clock with fewer than 2^32 ms between them, the value
\* getTicks() returns differs from the exact elapsed milliseconds by less than
\* 1, in both branches, also where the sub-second difference is negative.
TicksWithinOneMsBelowWrap ==
    (TicksReadOfSameClock /\ ElapsedNum < TicksModulus * ElapsedDen) => WithinOneMs

\* C20 as amended: the same with at most 2^32 - 1 ms between the origin and
\* the reading.
TicksWithinOneMsBeforeLastMs ==
    (TicksReadOfSameClock /\ ElapsedNum <= (TicksModulus - 1) * ElapsedDen) => WithinOneMs

\* a read of the gettimeofday branch whose microsecond field is smaller than
\* the origin's, and whose result is the elapsed time rounded up
TicksWithinOneMsWitness ==
    /\ TicksReadOfSameClock
    /\ ~has_monotonic_time
    /\ WallAt(clock).tv_usec < start_tv.tv_usec
    /\ ElapsedNum <= (TicksModulus - 1) * ElapsedDen
    /\ ret >= 1
    /\ ret * ElapsedDen > ElapsedNum
==========================================================================
